---------------------------- MODULE Spec2Model ----------------------------
(***************************************************************************)
(* Fuzzy rule-based diabetes risk system: the import-time calibration of   *)
(* fuzzy_memberships.py, the rule base and batch scoring of                *)
(* fuzzy_system.py (build_system, compute_scores, the threshold loop of    *)
(* main) and the interactive evaluation of app.py.                         *)
(*                                                                         *)
(* Number representation.  Universe coordinates are integers in units of   *)
(* 1/200 (Unit = 1.0), so that the 101 samples of np.linspace(0, 1, 101)   *)
(* are the even numbers 0, 2, ..., 200 and the midpoints (q2+q3)/2 and     *)
(* (q3+max)/2 of the default quantiles (125, 175) are integers too.        *)
(* Membership degrees are integers in units of 1/300 (Full = 1.0): every   *)
(* degree the program computes at a universe sample is a whole number of   *)
(* such units.  A score is an exact fraction <<n, d>> in lowest terms.     *)
(***************************************************************************)
EXTENDS Integers, Sequences, FiniteSets, TLC

\* 1.0 on a universe axis.
Unit == 200

\* Membership degree 1.0.
Full == 300

\* Distance between two neighbouring samples of a 101-point universe.
Step == 2

RECURSIVE GCD(_, _)
GCD(a, b) ==
    IF b = 0 THEN a ELSE GCD(b, a % b)

\* The fraction n/d (n >= 0, d > 0) in lowest terms.
Frac(n, d) ==
    LET g == GCD(n, d) IN <<n \div g, d \div g>>

Min2(a, b) == IF a <= b THEN a ELSE b

Max2(a, b) == IF a >= b THEN a ELSE b

(***************************************************************************)
(* skfuzzy.trimf / trapmf evaluated at one universe sample x, as called    *)
(* in fuzzy_memberships.py.  trimf: 1 at x = b, the rising edge strictly   *)
(* between a and b (when a # b), the falling edge strictly between b and   *)
(* c (when b # c), 0 elsewhere.  trapmf(a, b, c, d): trimf(a, b, b) for    *)
(* x <= b, trimf(c, c, d) for x >= c, 1 between, 0 outside [a, d].         *)
(***************************************************************************)
trimf(x, a, b, c) ==
    IF x = b THEN Full
    ELSE IF a # b /\ a < x /\ x < b THEN (Full * (x - a)) \div (b - a)
    ELSE IF b # c /\ b < x /\ x < c THEN (Full * (c - x)) \div (c - b)
    ELSE 0

trapmf(x, a, b, c, d) ==
    IF x < a \/ x > d THEN 0
    ELSE IF x <= b THEN trimf(x, a, b, b)
    ELSE IF x >= c THEN trimf(x, c, c, d)
    ELSE Full

\* The fallback tuple (0.0, 0.25, 0.5, 0.75, 1.0) of _compute_quantiles and
\* _load_data_quantiles.
DefaultQuantiles == <<0, Unit \div 4, Unit \div 2, (3 * Unit) \div 4, Unit>>

\* The eight inputs, in the order compute_scores assigns them.
Fields ==
    <<"BMI", "Age", "HighBP", "Smoker", "PhysActivity",
      "HighChol", "HeartDiseaseorAttack", "GenHlth">>

FieldSet == {Fields[i] : i \in 1..Len(Fields)}

\* The binary inputs, all over binary_universe with the same two triangles.
BinaryFields == {"HighBP", "Smoker", "PhysActivity", "HighChol", "HeartDiseaseorAttack"}

(***************************************************************************)
(* The membership functions of fuzzy_memberships.py, by variable and       *)
(* label (the labels build_system attaches), at a universe sample x.  q    *)
(* is the variable's quantile tuple (min, q1, q2, q3, max) from _Q.        *)
(***************************************************************************)
bmi_mf(label, x, q) ==
    CASE label = "under"   -> trimf(x, q[1], q[1], q[2])
      [] label = "healthy" -> trimf(x, q[2], q[3], q[4])
      [] label = "over"    -> trimf(x, q[3], (q[3] + q[4]) \div 2, q[5])
      [] label = "obese"   -> trapmf(x, q[4], (q[4] + q[5]) \div 2, q[5], q[5])

age_mf(label, x, q) ==
    CASE label = "young"  -> trimf(x, q[1], q[1], q[3])
      [] label = "middle" -> trimf(x, q[2], q[3], q[4])
      [] label = "old"    -> trapmf(x, q[4], (q[4] + q[5]) \div 2, q[5], q[5])

genhlth_mf(label, x, q) ==
    CASE label = "good" -> trimf(x, q[1], q[1], q[2])
      [] label = "avg"  -> trimf(x, q[2], q[3], q[4])
      [] label = "poor" -> trapmf(x, q[4], (q[4] + q[5]) \div 2, q[5], q[5])

\* bp_normal / smoke_no / act_inactive / chol_normal / cardio_no are
\* trimf(0, 0, 0.5); bp_high / smoke_yes / act_active / chol_high /
\* cardio_yes are trimf(0.5, 1, 1).
binary_mf(label, x) ==
    IF label \in {"normal", "no", "inactive"}
    THEN trimf(x, 0, 0, Unit \div 2)
    ELSE trimf(x, Unit \div 2, Unit, Unit)

\* risk_vlow .. risk_vhigh over risk_universe.
risk_mf(label, x) ==
    CASE label = "vlow"  -> trimf(x, 0, 0, Unit \div 5)
      [] label = "low"   -> trimf(x, Unit \div 10, Unit \div 4, (2 * Unit) \div 5)
      [] label = "med"   -> trimf(x, (3 * Unit) \div 10, Unit \div 2, (7 * Unit) \div 10)
      [] label = "high"  -> trimf(x, (3 * Unit) \div 5, (3 * Unit) \div 4, (9 * Unit) \div 10)
      [] label = "vhigh" -> trimf(x, (4 * Unit) \div 5, Unit, Unit)

RiskLabels == {"vlow", "low", "med", "high", "vhigh"}

\* The labels build_system attaches to each antecedent.
Labels(var) ==
    CASE var = "BMI"                  -> {"under", "healthy", "over", "obese"}
      [] var = "Age"                  -> {"young", "middle", "old"}
      [] var = "GenHlth"              -> {"good", "avg", "poor"}
      [] var = "HighBP"               -> {"normal", "high"}
      [] var = "Smoker"               -> {"no", "yes"}
      [] var = "PhysActivity"         -> {"inactive", "active"}
      [] var = "HighChol"             -> {"normal", "high"}
      [] var = "HeartDiseaseorAttack" -> {"no", "yes"}


(***************************************************************************)
(* build_system: the rule base.  A rule is an antecedent, the conjunction  *)
(* (&, minimum) of its (variable, label) terms in source order, and one    *)
(* consequent label of Risk.                                               *)
(***************************************************************************)
Rule(ante, cons) == [ante |-> ante, cons |-> cons]

\* VLOW / LOW
LowRules ==
    << Rule(<< <<"BMI", "healthy">>, <<"Age", "young">>, <<"HighBP", "normal">>,
               <<"Smoker", "no">>, <<"PhysActivity", "active">> >>, "vlow"),
       Rule(<< <<"BMI", "under">>, <<"PhysActivity", "active">>, <<"Smoker", "no">> >>, "vlow"),
       Rule(<< <<"BMI", "healthy">>, <<"Age", "middle">>, <<"PhysActivity", "active">> >>, "low"),
       Rule(<< <<"BMI", "healthy">>, <<"Smoker", "yes">> >>, "low"),
       Rule(<< <<"BMI", "over">>, <<"Age", "young">>, <<"PhysActivity", "active">> >>, "low") >>

\* MEDIUM
MediumRules ==
    << Rule(<< <<"BMI", "over">>, <<"PhysActivity", "inactive">> >>, "med"),
       Rule(<< <<"BMI", "obese">>, <<"Age", "young">>, <<"PhysActivity", "active">> >>, "med"),
       Rule(<< <<"HighBP", "high">>, <<"Age", "young">>, <<"PhysActivity", "active">> >>, "med"),
       Rule(<< <<"BMI", "healthy">>, <<"Age", "old">>, <<"PhysActivity", "inactive">> >>, "med"),
       Rule(<< <<"Smoker", "yes">>, <<"PhysActivity", "inactive">> >>, "med"),
       Rule(<< <<"BMI", "over">>, <<"Age", "middle">> >>, "med") >>

\* HIGH
HighRules ==
    << Rule(<< <<"BMI", "obese">>, <<"PhysActivity", "inactive">> >>, "high"),
       Rule(<< <<"BMI", "over">>, <<"Age", "old">>, <<"PhysActivity", "inactive">> >>, "high"),
       Rule(<< <<"HighBP", "high">>, <<"Smoker", "yes">> >>, "high"),
       Rule(<< <<"HighBP", "high">>, <<"Age", "old">> >>, "high") >>

\* VERY HIGH
VeryHighRules ==
    << Rule(<< <<"BMI", "obese">>, <<"HighBP", "high">>, <<"Age", "old">> >>, "vhigh"),
       Rule(<< <<"BMI", "obese">>, <<"HighBP", "high">>, <<"Smoker", "yes">> >>, "vhigh"),
       Rule(<< <<"HighBP", "high">>, <<"Age", "old">>, <<"PhysActivity", "inactive">> >>, "vhigh") >>

\* Mutant of ComorbidityRules: the two GenHlth poor rules are missing.
ComorbidityRulesShort ==
    << Rule(<< <<"HeartDiseaseorAttack", "yes">>, <<"BMI", "over">> >>, "high"),
       Rule(<< <<"HeartDiseaseorAttack", "yes">>, <<"HighBP", "high">> >>, "high"),
       Rule(<< <<"HeartDiseaseorAttack", "yes">>, <<"Age", "old">> >>, "high"),
       Rule(<< <<"HighChol", "high">>, <<"BMI", "over">> >>, "high"),
       Rule(<< <<"HighChol", "high">>, <<"HighBP", "high">> >>, "high"),
       Rule(<< <<"GenHlth", "good">>, <<"PhysActivity", "active">>, <<"BMI", "healthy">> >>, "low") >>

\* Comorbidity amplifiers
ComorbidityRules ==
    << Rule(<< <<"HeartDiseaseorAttack", "yes">>, <<"BMI", "over">> >>, "high"),
       Rule(<< <<"HeartDiseaseorAttack", "yes">>, <<"HighBP", "high">> >>, "high"),
       Rule(<< <<"HeartDiseaseorAttack", "yes">>, <<"Age", "old">> >>, "high"),
       Rule(<< <<"HighChol", "high">>, <<"BMI", "over">> >>, "high"),
       Rule(<< <<"HighChol", "high">>, <<"HighBP", "high">> >>, "high"),
       Rule(<< <<"GenHlth", "poor">>, <<"BMI", "over">> >>, "high"),
       Rule(<< <<"GenHlth", "poor">>, <<"Age", "old">> >>, "high"),
       Rule(<< <<"GenHlth", "good">>, <<"PhysActivity", "active">>, <<"BMI", "healthy">> >>, "low") >>

\* rules, as handed to ctrl.ControlSystem(rules).
RuleBase == LowRules \o MediumRules \o HighRules \o VeryHighRules \o ComorbidityRules

(***************************************************************************)
(* The simulation object (ctrl.ControlSystemSimulation): per antecedent    *)
(* the crisp input or none, and the output dictionary.  has is the set of  *)
(* antecedents that hold an input; output is <<>> while there is none.     *)
(***************************************************************************)
NoInputs == [f \in FieldSet |-> 0]

FreshSim == [input |-> NoInputs, has |-> {}, output |-> <<>>]

\* sim.reset(): forget all inputs, outputs and intermediate values.
Reset(sim) == FreshSim

\* sim.input[f] = v: the value is clipped to the bounds of the antecedent's
\* universe (clip_to_bounds, the library default), then stored.  u is the
\* pair <<lowest sample, highest sample>> of that universe.
Clip(v, u) == Min2(u[2], Max2(u[1], v))

SetInput(sim, f, v, u) ==
    [sim EXCEPT !.input[f] = Clip(v, u), !.has = @ \cup {f}]

\* The universe bounds of antecedent f under the quantile tables qs
\* (bmi_universe, age_universe, genhlth_universe, binary_universe).
UniverseOf(f, qs) ==
    IF f \in BinaryFields THEN <<0, Unit>> ELSE <<qs[f][1], qs[f][5]>>

\* Membership of the antecedent term (var, label) at a universe sample x.
TermMF(var, label, x, qs) ==
    CASE var = "BMI"     -> bmi_mf(label, x, qs[var])
      [] var = "Age"     -> age_mf(label, x, qs[var])
      [] var = "GenHlth" -> genhlth_mf(label, x, qs[var])
      [] OTHER           -> binary_mf(label, x)

\* Fuzzification (interp_membership over the sampled term): at a universe
\* sample the sampled value; between two samples the linear interpolation
\* of the two neighbouring samples.
Fuzzify(var, label, x, qs) ==
    IF x % Step = 0
    THEN TermMF(var, label, x, qs)
    ELSE (TermMF(var, label, x - 1, qs) + TermMF(var, label, x + 1, qs)) \div 2

\* Firing strength of a rule: the minimum over its antecedent terms.
RECURSIVE AndTerms(_, _, _, _)
AndTerms(ante, i, input, qs) ==
    IF i > Len(ante) THEN Full
    ELSE Min2(Fuzzify(ante[i][1], ante[i][2], input[ante[i][1]], qs),
              AndTerms(ante, i + 1, input, qs))

Firing(rule, input, qs) == AndTerms(rule.ante, 1, input, qs)

\* Activation of a Risk term: the maximum firing strength over the rules
\* whose consequent it is (0 when none fires).
RECURSIVE CutFrom(_, _, _, _, _)
CutFrom(rules, i, label, input, qs) ==
    IF i > Len(rules) THEN 0
    ELSE Max2(IF rules[i].cons = label THEN Firing(rules[i], input, qs) ELSE 0,
              CutFrom(rules, i + 1, label, input, qs))

RiskOrder == <<"vlow", "low", "med", "high", "vhigh">>

\* The five activations, in RiskOrder.
Cuts(rules, input, qs) ==
    << CutFrom(rules, 1, "vlow", input, qs), CutFrom(rules, 1, "low", input, qs),
       CutFrom(rules, 1, "med", input, qs), CutFrom(rules, 1, "high", input, qs),
       CutFrom(rules, 1, "vhigh", input, qs) >>

\* A Risk term as fuzzy_memberships.py holds it: the array of its values at
\* the samples number lo..hi of risk_universe (sample i is Step * i / Unit).
RECURSIVE Sampled(_, _, _)
Sampled(label, lo, hi) ==
    IF lo = hi THEN <<risk_mf(label, Step * lo)>>
    ELSE Sampled(label, lo, (lo + hi) \div 2) \o Sampled(label, (lo + hi) \div 2 + 1, hi)

risk_vlow == Sampled("vlow", 0, Unit \div Step)

risk_low == Sampled("low", 0, Unit \div Step)

risk_med == Sampled("med", 0, Unit \div Step)

risk_high == Sampled("high", 0, Unit \div Step)

risk_vhigh == Sampled("vhigh", 0, Unit \div Step)

\* Implication and aggregation at sample number i (1..101) of
\* risk_universe: each term clipped (min) at its activation, the maximum
\* over the terms.
Aggregated(cuts, i) ==
    Max2(Max2(Max2(Min2(cuts[1], risk_vlow[i]), Min2(cuts[2], risk_low[i])),
              Max2(Min2(cuts[3], risk_med[i]), Min2(cuts[4], risk_high[i]))),
         Min2(cuts[5], risk_vhigh[i]))

\* The aggregated curve at the samples number lo..hi.
RECURSIVE Curve(_, _, _)
Curve(cuts, lo, hi) ==
    IF lo = hi THEN <<Aggregated(cuts, lo)>>
    ELSE Curve(cuts, lo, (lo + hi) \div 2) \o Curve(cuts, (lo + hi) \div 2 + 1, hi)

(***************************************************************************)
(* Centroid defuzzification (skfuzzy.defuzz 'centroid') of the aggregated  *)
(* curve mfx over risk_universe: the curve is piecewise linear between     *)
(* neighbouring samples x1 < x2 with heights y1, y2; each piece has area   *)
(* (x2 - x1)(y1 + y2)/2 and first moment                                   *)
(* (x2 - x1)(x1 (y1 + y2)/2 + (x2 - x1)(y1 + 2 y2)/6).                     *)
(* With x2 - x1 = Step = 2: area = y1 + y2 and                             *)
(* 3 * moment = 3 x1 (y1 + y2) + 2 (y1 + 2 y2).                            *)
(* The library first adds to the universe the points where a term meets    *)
(* its activation level; when every activation is a multiple of 1/5 those  *)
(* points are universe samples already, which is the case for every input  *)
(* the specifications below draw.                                          *)
(***************************************************************************)
\* Sum of the areas of the pieces lo..hi (piece i lies between samples i, i + 1).
RECURSIVE AreaSum(_, _, _)
AreaSum(mfx, lo, hi) ==
    IF lo > hi THEN 0
    ELSE IF lo = hi THEN mfx[lo] + mfx[lo + 1]
    ELSE AreaSum(mfx, lo, (lo + hi) \div 2) + AreaSum(mfx, (lo + hi) \div 2 + 1, hi)

\* Three times the sum of the moments of the pieces lo..hi.
RECURSIVE Moment3Sum(_, _, _)
Moment3Sum(mfx, lo, hi) ==
    IF lo > hi THEN 0
    ELSE IF lo = hi
    THEN 3 * (Step * (lo - 1)) * (mfx[lo] + mfx[lo + 1]) + Step * (mfx[lo] + 2 * mfx[lo + 1])
    ELSE Moment3Sum(mfx, lo, (lo + hi) \div 2) + Moment3Sum(mfx, (lo + hi) \div 2 + 1, hi)

\* Mutant of Centroid: the quotient is not brought back to the [0, 1] scale.
CentroidUnscaled(mfx) ==
    Frac(Moment3Sum(mfx, 1, Len(mfx) - 1), 3 * AreaSum(mfx, 1, Len(mfx) - 1))

\* The crisp output as a fraction of 1.0: moment / area / Unit.
Centroid(mfx) ==
    Frac(Moment3Sum(mfx, 1, Len(mfx) - 1), 3 * Unit * AreaSum(mfx, 1, Len(mfx) - 1))

\* defuzz refuses a curve that is zero at every sample (mfx.sum() == 0).
ZeroArea(mfx) == AreaSum(mfx, 1, Len(mfx) - 1) = 0

(***************************************************************************)
(* sim.compute(): raises when an antecedent holds no input ("All           *)
(* antecedents must have input values!") and when the aggregated           *)
(* membership is zero at every sample ("Crisp output cannot be             *)
(* calculated ..."); otherwise stores the centroid in sim.output['Risk'].  *)
(***************************************************************************)
\* The aggregated curve for the inputs the simulation holds.
OutputCurve(rules, input, qs) ==
    CHOOSE mfx \in {Curve(cuts, 1, Len(risk_med)) : cuts \in {Cuts(rules, input, qs)}} : TRUE

\* compute, once the curve is known.
Defuzzify(sim, mfx) ==
    IF ZeroArea(mfx)
    THEN [sim |-> sim, raised |-> TRUE]
    ELSE [sim |-> [sim EXCEPT !.output = Centroid(mfx)], raised |-> FALSE]

Compute(rules, sim, qs) ==
    IF sim.has # FieldSet
    THEN [sim |-> sim, raised |-> TRUE]
    ELSE CHOOSE r \in {Defuzzify(sim, mfx) : mfx \in {OutputCurve(rules, sim.input, qs)}} : TRUE

(***************************************************************************)
(* The state of the program.                                               *)
(***************************************************************************)
VARIABLES
    pc,          \* position of the running entry point
    csv,         \* the reference file read at import (calibration input)
    col,         \* _load_data_quantiles: number of columns processed
    Q,           \* fuzzy_memberships._Q: column -> quantile tuple
    ctrl_rules,  \* the rules of the ControlSystem built by build_system
    sim,         \* the shared ControlSystemSimulation
    df,          \* compute_scores: the rows iterated so far
    scores,      \* compute_scores: the list scores
    raised,      \* history: for each row, whether its try block raised
    args,        \* main: the parsed command line
    y_true,      \* main: the labels df['Diabetes_binary']
    k,           \* main: number of grid thresholds visited
    best_thr,    \* main: best_thr (hundredths)
    best_f1,     \* main: best_f1 (a fraction)
    ui,          \* app: the sidebar widgets' values
    result       \* app: what the page shows after the button

vars ==
    <<pc, csv, col, Q, ctrl_rules, sim, df, scores, raised, args, y_true, k,
      best_thr, best_f1, ui, result>>

CalibratedColumns == <<"BMI", "Age", "GenHlth">>

CalibratedSet == {CalibratedColumns[i] : i \in 1..Len(CalibratedColumns)}

\* _Q when the reference file could not be used.
AllDefault == [c \in CalibratedSet |-> DefaultQuantiles]

\* The neutral score 0.5 appended by the except branch of compute_scores.
Half == <<1, 2>>

(***************************************************************************)
(* compute_scores, one iteration of the for loop.  A row gives each field  *)
(* a number (row.v) unless the field is malformed (row.bad: missing or     *)
(* not convertible, so that float(row[f]) raises).                         *)
(***************************************************************************)
\* The assignments sim.input[f] = float(row[f]) from field number i on, in
\* source order, stopping at the first that raises.
RECURSIVE AssignInputs(_, _, _, _)
AssignInputs(s, row, i, qs) ==
    IF i > Len(Fields) THEN [sim |-> s, raised |-> FALSE]
    ELSE IF Fields[i] \in row.bad THEN [sim |-> s, raised |-> TRUE]
    ELSE AssignInputs(SetInput(s, Fields[i], row.v[Fields[i]], UniverseOf(Fields[i], qs)),
                      row, i + 1, qs)

\* Mutant of OnExcept: the except branch appends nothing.
OnExceptDrop(sc) == sc

\* Mutant of OnExcept: the except branch repeats the previous score.
OnExceptStale(sc) == Append(sc, IF sc = <<>> THEN Half ELSE sc[Len(sc)])

\* except Exception: scores.append(0.5)
OnExcept(sc) == Append(sc, Half)

\* The try block for one row: reset, the eight assignments, compute.
Try(rules, s, row, qs) ==
    CHOOSE t \in {IF a.raised THEN a ELSE Compute(rules, a.sim, qs) :
                    a \in {AssignInputs(Reset(s), row, 1, qs)}} : TRUE

\* The try block and its except branch for one row.
ScoreOne(rules, s, sc, row, qs) ==
    CHOOSE r \in {[sim |-> t.sim,
                    scores |-> IF t.raised THEN OnExcept(sc)
                               ELSE Append(sc, t.sim.output),
                    raised |-> t.raised] : t \in {Try(rules, s, row, qs)}} : TRUE

(***************************************************************************)
(* main: the threshold sweep.  Thresholds are in hundredths; the grid      *)
(* <<start, stop, step>> is np.arange(start, stop, step).                  *)
(***************************************************************************)
\* len(np.arange(start, stop, step)) for step > 0: ceil((stop - start) / step).
GridLen(g) ==
    IF g[2] <= g[1] THEN 0 ELSE (g[2] - g[1] + g[3] - 1) \div g[3]

\* The threshold visited in iteration number j (j = 0 first).
GridThr(g, j) == g[1] + j * g[3]

\* scores >= thr, for one score.
Predict(score, thr) == IF 100 * score[1] >= thr * score[2] THEN 1 ELSE 0

\* Number of records with label truth and prediction pred at threshold thr.
Count(sc, y, thr, truth, pred) ==
    Cardinality({i \in 1..Len(sc) : y[i] = truth /\ Predict(sc[i], thr) = pred})

\* sklearn f1_score(y_true, y_pred, zero_division=0) = 2tp / (2tp + fp + fn).
f1_score(sc, y, thr) ==
    LET tp == Count(sc, y, thr, 1, 1)
        fp == Count(sc, y, thr, 0, 1)
        fn == Count(sc, y, thr, 1, 0)
    IN  IF 2 * tp + fp + fn = 0 THEN <<0, 1>> ELSE Frac(2 * tp, 2 * tp + fp + fn)

\* sklearn accuracy_score = (tp + tn) / n.
accuracy_score(sc, y, thr) ==
    Frac(Count(sc, y, thr, 1, 1) + Count(sc, y, thr, 0, 0), Len(sc))

\* a > b for fractions with positive denominators.
Greater(a, b) == a[1] * b[2] > b[1] * a[2]

\* The metric the loop evaluates at line 212: f1_score, whatever args.metric.
SweepMetric(metric, sc, y, thr) == f1_score(sc, y, thr)

\* Mutant of Improves: if f1 >= best_f1.
ImprovesOrTies(f1, best) == ~Greater(best, f1)

\* if f1 > best_f1
Improves(f1, best) == Greater(f1, best)

(***************************************************************************)
(* Inputs of the batch run.                                                *)
(***************************************************************************)
\* Longest data frame the batch specification iterates.
MaxRows == 3

MkRow(bmi, age, bp, smoker, act, chol, heart, gh, bad) ==
    [v |-> [f \in FieldSet |->
              CASE f = "BMI" -> bmi [] f = "Age" -> age [] f = "HighBP" -> bp
                [] f = "Smoker" -> smoker [] f = "PhysActivity" -> act
                [] f = "HighChol" -> chol [] f = "HeartDiseaseorAttack" -> heart
                [] f = "GenHlth" -> gh],
     bad |-> bad]

\* Rows of the data frame: a healthy record, one whose only firing rule is
\* Smoker yes & PhysActivity inactive -> med, one for which no rule fires,
\* one with every risk factor but smoking, and one whose HighChol is
\* malformed (five inputs are assigned before float() raises).
Rows ==
    { MkRow(Unit \div 2, 0, 0, 0, Unit, 0, 0, 0, {}),
      MkRow(Unit \div 4, 0, 0, Unit, 0, 0, 0, 0, {}),
      MkRow(Unit \div 4, 0, 0, 0, 0, 0, 0, 0, {}),
      MkRow(Unit, Unit, Unit, 0, 0, Unit, Unit, Unit, {}),
      MkRow(Unit, Unit, Unit, 0, 0, 0, Unit, Unit, {"HighChol"}) }

\* Values of a calibrated input (BMI, Age, GenHlth) for the wide run: on
\* these every membership degree is a multiple of 1/5.  -20 and 240 lie
\* outside the universe.
WideBmi == {-20, 0, 50, 100, 110, 140, 170, 200, 240}

WideAge == {0, 60, 100, 150, 170, 200}

WideGenHlth == {0, 10, 100, 170, 200}

\* Rows of the wide run: every combination of the values above with the
\* binary inputs 0 / 1, and rows with one malformed field.
WideRows ==
    { MkRow(b, a, x[1], x[2], x[3], x[4], x[5], g, {}) :
        b \in WideBmi, a \in WideAge, g \in WideGenHlth,
        x \in [1..5 -> {0, Unit}] }
    \cup { MkRow(0, 0, 0, 0, 0, 0, 0, 0, {f}) : f \in FieldSet }

\* --threshold-grid: the default (0.2, 0.8, 0.02) of line 195, coarser
\* grids, and two empty ones (start >= stop), in hundredths.
Grids ==
    { <<20, 80, 2>>, <<20, 100, 30>>, <<50, 100, 25>>, <<80, 20, 2>>, <<50, 50, 2>> }

\* --metric choices.
Metrics == {"f1", "accuracy"}

NoArgs == [metric |-> "f1", grid |-> <<20, 80, 2>>]

NoUi == [age |-> 18, bmi |-> 150, genhlth |-> 1, bin |-> <<0, 0, 0, 0, 0>>]

NoResult == [kind |-> "none", score |-> <<>>, level |-> ""]

NoCsv == [pandas |-> TRUE, readable |-> FALSE, cols |-> {}, data |-> <<>>]

(***************************************************************************)
(* main of fuzzy_system.py.  The module has been imported: _Q holds the    *)
(* quantile tables; here the reference file was not usable and _Q is the   *)
(* default table.                                                          *)
(***************************************************************************)
InitMain ==
    /\ pc = "build"
    /\ csv = NoCsv
    /\ col = 0
    /\ Q = AllDefault
    /\ ctrl_rules = <<>>
    /\ sim = FreshSim
    /\ df = <<>>
    /\ scores = <<>>
    /\ raised = <<>>
    /\ args = NoArgs
    /\ y_true = <<>>
    /\ k = 0
    /\ best_thr = 50
    /\ best_f1 = <<-1, 1>>
    /\ ui = NoUi
    /\ result = NoResult

\* _, sim = build_system()
BuildSystem ==
    /\ pc = "build"
    /\ ctrl_rules' = RuleBase
    /\ sim' = FreshSim
    /\ pc' = "score"
    /\ UNCHANGED <<csv, col, Q, df, scores, raised, args, y_true, k, best_thr,
                   best_f1, ui, result>>

\* One iteration of the for loop of compute_scores over the next row of df
\* (drawn from rows), while df has fewer than maxlen rows.
ScoreRowFrom(rows, maxlen) ==
    /\ pc = "score"
    /\ Len(df) < maxlen
    /\ \E row \in rows :
         \E r \in {ScoreOne(ctrl_rules, sim, scores, row, Q)} :
             /\ df' = Append(df, row)
             /\ sim' = r.sim
             /\ scores' = r.scores
             /\ raised' = Append(raised, r.raised)
    /\ UNCHANGED <<pc, csv, col, Q, ctrl_rules, args, y_true, k, best_thr,
                   best_f1, ui, result>>

ScoreRow == ScoreRowFrom(Rows, MaxRows)

\* The rows are exhausted: return np.asarray(scores).
ReturnScores ==
    /\ pc = "score"
    /\ pc' = "scored"
    /\ UNCHANGED <<csv, col, Q, ctrl_rules, sim, df, scores, raised, args,
                   y_true, k, best_thr, best_f1, ui, result>>

\* main, lines 208-210: y_true = df['Diabetes_binary'] (one 0/1 label per
\* row), best_thr, best_f1 = 0.5, -1, and the grid and metric of the
\* command line, which are first read here.
StartSweep ==
    /\ pc = "scored"
    /\ Len(df) >= 1
    /\ y_true' \in [1..Len(df) -> {0, 1}]
    /\ \E m \in Metrics, g \in Grids : args' = [metric |-> m, grid |-> g]
    /\ k' = 0
    /\ best_thr' = 50
    /\ best_f1' = <<-1, 1>>
    /\ pc' = "sweep"
    /\ UNCHANGED <<csv, col, Q, ctrl_rules, sim, df, scores, raised, ui, result>>

\* One iteration of for thr in np.arange(*args.threshold_grid).
SweepStep ==
    /\ pc = "sweep"
    /\ k < GridLen(args.grid)
    /\ LET thr == GridThr(args.grid, k)
           f1 == SweepMetric(args.metric, scores, y_true, thr)
       IN  IF Improves(f1, best_f1)
           THEN best_f1' = f1 /\ best_thr' = thr
           ELSE UNCHANGED <<best_f1, best_thr>>
    /\ k' = k + 1
    /\ UNCHANGED <<pc, csv, col, Q, ctrl_rules, sim, df, scores, raised, args,
                   y_true, ui, result>>

\* The grid is exhausted: best_thr is the selected threshold.
SweepDone ==
    /\ pc = "sweep"
    /\ k = GridLen(args.grid)
    /\ pc' = "done"
    /\ UNCHANGED <<csv, col, Q, ctrl_rules, sim, df, scores, raised, args,
                   y_true, k, best_thr, best_f1, ui, result>>

Next ==
    \/ BuildSystem
    \/ ScoreRow
    \/ ReturnScores
    \/ StartSweep
    \/ SweepStep
    \/ SweepDone

Spec == InitMain /\ [][Next]_vars

\* compute_scores over a data frame of one row drawn from the wide rows.
ScoreWideRow == ScoreRowFrom(WideRows, 1)

NextWide ==
    \/ BuildSystem
    \/ ScoreWideRow
    \/ ReturnScores

SpecWide == InitMain /\ [][NextWide]_vars

(***************************************************************************)
(* app.py: the interactive page.  Every run of the script builds the       *)
(* system anew (line 26) and reads the sidebar; the run that follows a     *)
(* press of the button also evaluates.                                     *)
(***************************************************************************)
\* Slider and selectbox values the specification draws: ages in years, BMI
\* in tenths, General Health 1 (Excellent) .. 5 (Poor).  Their normalised
\* values are universe samples with degrees that are multiples of 1/5.
AgeYears == {18, 54, 72, 90}

BmiTenths == {150, 225, 300, 330, 405, 450}

GenHlthChoices == 1..5

UiStates ==
    [age : AgeYears, bmi : BmiTenths, genhlth : GenHlthChoices, bin : [1..5 -> {0, 1}]]

\* Lines 157-159: age_norm, bmi_norm, genhlth_norm, in universe units.
age_norm(age_real) == (Unit * (age_real - 18)) \div (90 - 18)

bmi_norm(bmi_tenths) == (Unit * (bmi_tenths - 150)) \div (450 - 150)

genhlth_norm(genhlth_real) == (Unit * (genhlth_real - 1)) \div 4

\* The eight values assigned at lines 169-176; u.bin is <<HighBP, Smoker,
\* PhysActivity, HighChol, HeartDisease>>, each 0 or 1.
AppInputs(u) ==
    [f \in FieldSet |->
       CASE f = "Age" -> age_norm(u.age)
         [] f = "BMI" -> bmi_norm(u.bmi)
         [] f = "GenHlth" -> genhlth_norm(u.genhlth)
         [] f = "HighBP" -> Unit * u.bin[1]
         [] f = "Smoker" -> Unit * u.bin[2]
         [] f = "PhysActivity" -> Unit * u.bin[3]
         [] f = "HighChol" -> Unit * u.bin[4]
         [] f = "HeartDiseaseorAttack" -> Unit * u.bin[5]]

\* The order of the assignments at lines 169-176.
AppOrder ==
    <<"Age", "BMI", "GenHlth", "HighBP", "Smoker", "PhysActivity",
      "HighChol", "HeartDiseaseorAttack">>

RECURSIVE AppAssign(_, _, _, _)
AppAssign(s, input, i, qs) ==
    IF i > Len(AppOrder) THEN s
    ELSE AppAssign(SetInput(s, AppOrder[i], input[AppOrder[i]], UniverseOf(AppOrder[i], qs)),
                   input, i + 1, qs)

\* score < t / 10
Below(score, t) == 10 * score[1] < t * score[2]

\* Lines 182-191.
RiskLevel(score) ==
    IF Below(score, 2) THEN "Very Low"
    ELSE IF Below(score, 4) THEN "Low"
    ELSE IF Below(score, 6) THEN "Medium"
    ELSE IF Below(score, 8) THEN "High"
    ELSE "Very High"

\* What the page shows: the score and its level, or st.error when the try
\* block raised.
Shown(t) ==
    IF t.raised THEN [kind |-> "error", score |-> <<>>, level |-> ""]
    ELSE [kind |-> "score", score |-> t.sim.output, level |-> RiskLevel(t.sim.output)]

InitApp ==
    /\ pc = "page"
    /\ csv = NoCsv
    /\ col = 0
    /\ Q = AllDefault
    /\ ctrl_rules = RuleBase
    /\ sim = FreshSim
    /\ df = <<>>
    /\ scores = <<>>
    /\ raised = <<>>
    /\ args = NoArgs
    /\ y_true = <<>>
    /\ k = 0
    /\ best_thr = 50
    /\ best_f1 = <<-1, 1>>
    /\ ui \in UiStates
    /\ result = NoResult

\* The user changes one widget: the script runs again without the button.
ChangeWidget ==
    /\ pc = "page"
    /\ \/ \E a \in AgeYears : a # ui.age /\ ui' = [ui EXCEPT !.age = a]
       \/ \E b \in BmiTenths : b # ui.bmi /\ ui' = [ui EXCEPT !.bmi = b]
       \/ \E g \in GenHlthChoices : g # ui.genhlth /\ ui' = [ui EXCEPT !.genhlth = g]
       \/ \E i \in 1..5 : ui' = [ui EXCEPT !.bin[i] = 1 - @]
    /\ ctrl_rules' = RuleBase
    /\ sim' = FreshSim
    /\ result' = NoResult
    /\ UNCHANGED <<pc, csv, col, Q, df, scores, raised, args, y_true, k,
                   best_thr, best_f1>>

\* The button: the script runs again, lines 165-216.
Evaluate ==
    /\ pc = "page"
    /\ ctrl_rules' = RuleBase
    /\ \E t \in {Compute(ctrl_rules, AppAssign(Reset(sim), AppInputs(ui), 1, Q), Q)} :
         /\ sim' = t.sim
         /\ result' = Shown(t)
    /\ UNCHANGED <<pc, csv, col, Q, df, scores, raised, args, y_true, k,
                   best_thr, best_f1, ui>>

NextApp ==
    \/ ChangeWidget
    \/ Evaluate

SpecApp == InitApp /\ [][NextApp]_vars

(***************************************************************************)
(* fuzzy_memberships.py at import: _Q = _load_data_quantiles().  A cell of *)
(* the reference file is a number, a missing value (NaN) or a text that    *)
(* float cannot convert.                                                   *)
(***************************************************************************)
\* Most rows the reference file holds.
MaxCsvRows == 2

Num(v) == [kind |-> "num", v |-> v]

Cells == {Num(40), Num(120), [kind |-> "nan", v |-> 0], [kind |-> "str", v |-> 0]}

\* The reference file: pandas missing, the file unreadable, or a frame with
\* some of the three columns and up to MaxCsvRows rows.
CsvFiles ==
    { [pandas |-> FALSE, readable |-> FALSE, cols |-> {}, data |-> <<>>], NoCsv }
    \cup { [pandas |-> TRUE, readable |-> TRUE, cols |-> DOMAIN d, data |-> d] :
             d \in UNION { [C -> [1..n -> Cells]] :
                             C \in SUBSET CalibratedSet, n \in 0..MaxCsvRows } }

\* series.dropna()
DropNa(series) == SelectSeq(series, LAMBDA c : c.kind # "nan")

\* .astype(float) raises on a text cell.
AstypeRaises(series) == \E i \in 1..Len(series) : series[i].kind = "str"

\* The values of a series of numbers, ascending.
RECURSIVE Insert(_, _)
Insert(sorted, v) ==
    IF sorted = <<>> THEN <<v>>
    ELSE IF v <= Head(sorted) THEN <<v>> \o sorted
    ELSE <<Head(sorted)>> \o Insert(Tail(sorted), v)

RECURSIVE Sorted(_)
Sorted(series) ==
    IF series = <<>> THEN <<>> ELSE Insert(Sorted(Tail(series)), Head(series).v)

\* pandas Series.quantile(p4 / 4), linear interpolation between the order
\* statistics around position (n - 1) p4 / 4.
Quantile(sorted, p4) ==
    LET pos4 == (Len(sorted) - 1) * p4
        i == pos4 \div 4 + 1
        r == pos4 % 4
    IN  IF r = 0 THEN sorted[i]
        ELSE sorted[i] + (r * (sorted[i + 1] - sorted[i])) \div 4

\* _compute_quantiles, for a series astype accepts.
compute_quantiles(series) ==
    LET s == Sorted(DropNa(series))
    IN  IF s = <<>> THEN DefaultQuantiles
        ELSE <<s[1], Quantile(s, 1), Quantile(s, 2), Quantile(s, 3), s[Len(s)]>>

\* q with q[c] = t.
Store(q, c, t) == [x \in DOMAIN q \cup {c} |-> IF x = c THEN t ELSE q[x]]

InitImport ==
    /\ pc = "import"
    /\ csv \in CsvFiles
    /\ col = 0
    /\ Q = <<>>
    /\ ctrl_rules = <<>>
    /\ sim = FreshSim
    /\ df = <<>>
    /\ scores = <<>>
    /\ raised = <<>>
    /\ args = NoArgs
    /\ y_true = <<>>
    /\ k = 0
    /\ best_thr = 50
    /\ best_f1 = <<-1, 1>>
    /\ ui = NoUi
    /\ result = NoResult

\* Lines 26-31: q = {}, the pandas check and pd.read_csv; either may raise
\* into the except branch, which returns the default table.
ReadCsv ==
    /\ pc = "import"
    /\ IF csv.pandas /\ csv.readable
       THEN Q' = <<>> /\ pc' = "columns"
       ELSE Q' = AllDefault /\ pc' = "loaded"
    /\ col' = 0
    /\ UNCHANGED <<csv, ctrl_rules, sim, df, scores, raised, args, y_true, k,
                   best_thr, best_f1, ui, result>>

\* One iteration of for col in ['BMI', 'Age', 'GenHlth'] (lines 32-36); an
\* exception in _compute_quantiles reaches the except branch of line 37.
CalibrateColumn ==
    /\ pc = "columns"
    /\ col < Len(CalibratedColumns)
    /\ LET c == CalibratedColumns[col + 1]
       IN  IF c \in csv.cols
           THEN IF AstypeRaises(DropNa(csv.data[c]))
                THEN Q' = AllDefault /\ pc' = "loaded"
                ELSE Q' = Store(Q, c, compute_quantiles(csv.data[c])) /\ pc' = pc
           ELSE Q' = Store(Q, c, DefaultQuantiles) /\ pc' = pc
    /\ col' = col + 1
    /\ UNCHANGED <<csv, ctrl_rules, sim, df, scores, raised, args, y_true, k,
                   best_thr, best_f1, ui, result>>

\* return q
ReturnQuantiles ==
    /\ pc = "columns"
    /\ col = Len(CalibratedColumns)
    /\ pc' = "loaded"
    /\ UNCHANGED <<csv, col, Q, ctrl_rules, sim, df, scores, raised, args,
                   y_true, k, best_thr, best_f1, ui, result>>

NextImport ==
    \/ ReadCsv
    \/ CalibrateColumn
    \/ ReturnQuantiles

SpecImport == InitImport /\ [][NextImport]_vars

(***************************************************************************)
(* Properties.                                                             *)
(***************************************************************************)
\* 0 <= score <= 1 for a fraction.
InUnit(score) == score[2] > 0 /\ 0 <= score[1] /\ score[1] <= score[2]

\* The score compute_scores gives a row processed alone, first, on a
\* freshly built system.
AloneScore(row) == ScoreOne(ctrl_rules, FreshSim, <<>>, row, Q).scores[1]

C1_State ==
    /\ Len(scores) = Len(df)
    /\ Len(raised) = Len(df)
    /\ \A i \in 1..Len(raised) : raised[i] => scores[i] = Half

C1_Step ==
    \/ scores' = scores /\ df' = df
    \/ /\ Len(df') = Len(df) + 1
       /\ SubSeq(df', 1, Len(df)) = df
       /\ Len(scores') = Len(scores) + 1
       /\ SubSeq(scores', 1, Len(scores)) = scores
       /\ pc' = "score"

\* C1: compute_scores holds exactly one score per record iterated, in the
\* order of the records: every iteration appends one score at the end and
\* leaves the earlier scores and the loop in place, and a record whose try
\* block raised (in an assignment or in compute) has the score 0.5.
C1_OneScorePerRecord == [](C1_State) /\ [][C1_Step]_vars

\* C1 witness: the loop has returned after a record that raised was followed
\* by a record that was scored.
C1_Witness ==
    /\ pc = "scored"
    /\ \E i \in 1..Len(df) - 1 : raised[i] /\ ~raised[i + 1] /\ scores[i + 1] # Half

\* C2: while compute_scores runs and when it has returned, the score of
\* every record equals the score the same record gets when it is processed
\* alone on a freshly built system, whatever records preceded it.
C2_Independent ==
    pc \in {"score", "scored"} =>
        \A i \in 1..Len(scores) : scores[i] = AloneScore(df[i])

\* C2 witness: a record failed after five of its inputs were assigned and
\* the record after it was scored by inference.
C2_Witness ==
    /\ pc = "scored"
    /\ \E i \in 1..Len(df) - 1 :
         /\ df[i].bad = {"HighChol"}
         /\ raised[i]
         /\ ~raised[i + 1]
         /\ scores[i + 1] = AloneScore(df[i + 1])
         /\ scores[i + 1] # Half

\* The thresholds the sweep visits.
GridSet(g) == {GridThr(g, j) : j \in 0..GridLen(g) - 1}

\* best_thr is in the grid, its F1 is the largest over the grid, and it is
\* the lowest threshold with that F1.
FirstBest(g) ==
    /\ best_thr \in GridSet(g)
    /\ \A t \in GridSet(g) :
         /\ ~Greater(f1_score(scores, y_true, t), f1_score(scores, y_true, best_thr))
         /\ f1_score(scores, y_true, t) = f1_score(scores, y_true, best_thr) => best_thr <= t

ChosenMetric(t) ==
    IF args.metric = "accuracy" THEN accuracy_score(scores, y_true, t)
    ELSE f1_score(scores, y_true, t)

\* C4: the selected threshold maximizes the metric the caller chose: no
\* grid threshold has a larger value of args.metric than best_thr.
C4_ChosenMetric ==
    (pc = "done" /\ GridLen(args.grid) > 0) =>
        \A t \in GridSet(args.grid) : ~Greater(ChosenMetric(t), ChosenMetric(best_thr))

\* No rule of the rule base fires for the inputs the simulation holds.
ZeroFiring(s) ==
    /\ s.has = FieldSet
    /\ \A i \in 1..Len(ctrl_rules) : Firing(ctrl_rules[i], s.input, Q) = 0

\* C5: an inference for which every rule has firing strength 0 returns the
\* score 0.5 and surfaces no error.
C5_ZeroFiringFallback ==
    (result.kind # "none" /\ ZeroFiring(sim)) =>
        result.kind = "score" /\ result.score = Half

\* C6: every score the system produces lies in [0, 1]: the scores appended
\* by compute_scores (centroid or fallback), the output held by the
\* simulation and the score the page shows.
C6_ScoreInUnit ==
    /\ \A i \in 1..Len(scores) : InUnit(scores[i])
    /\ sim.output # <<>> => InUnit(sim.output)
    /\ result.kind = "score" => InUnit(result.score)

\* C6 witness: compute_scores has returned the centroid of a record whose
\* BMI lay above the universe, a score above 0.8.
C6_Witness ==
    /\ pc = "scored"
    /\ Len(scores) = 1
    /\ ~raised[1]
    /\ df[1].v["BMI"] > Unit
    /\ scores[1] = sim.output
    /\ ~Below(scores[1], 8)

\* C7: a fallback is visible in the output: a record that took the fallback
\* never has the same output as a record that was scored by inference, so
\* the degraded records can be told from the array returned.
C7_FallbackVisible ==
    \A i, j \in 1..Len(scores) : (raised[i] /\ ~raised[j]) => scores[i] # scores[j]

\* A comorbidity rule: one whose antecedent involves HeartDiseaseorAttack,
\* HighChol or GenHlth.
IsComorbidity(rule) ==
    \E i \in 1..Len(rule.ante) :
        rule.ante[i][1] \in {"HeartDiseaseorAttack", "HighChol", "GenHlth"}

\* The protective rule GenHlth good & PhysActivity active & BMI healthy -> low.
IsProtective(rule) ==
    /\ {rule.ante[i] : i \in 1..Len(rule.ante)}
         = {<<"GenHlth", "good">>, <<"PhysActivity", "active">>, <<"BMI", "healthy">>}
    /\ rule.cons = "low"

\* Number of rules of the built system of the given kind and consequents.
RuleCount(comorbid, cons) ==
    Cardinality({i \in 1..Len(ctrl_rules) :
                   /\ IsComorbidity(ctrl_rules[i]) = comorbid
                   /\ ctrl_rules[i].cons \in cons})

\* The tiers of the rule base, and the shape of every rule.
TierCounts ==
    /\ RuleCount(FALSE, {"vlow", "low"}) = 5
    /\ RuleCount(FALSE, {"med"}) = 6
    /\ RuleCount(FALSE, {"high"}) = 4
    /\ RuleCount(FALSE, {"vhigh"}) = 3
    /\ Cardinality({i \in 1..Len(ctrl_rules) : IsProtective(ctrl_rules[i])}) = 1
    /\ \A i \in 1..Len(ctrl_rules) :
         /\ IsComorbidity(ctrl_rules[i]) =>
              IsProtective(ctrl_rules[i]) \/ ctrl_rules[i].cons = "high"
         /\ ctrl_rules[i].cons \in RiskLabels
         /\ Len(ctrl_rules[i].ante) >= 1
         /\ \A j \in 1..Len(ctrl_rules[i].ante) :
              /\ ctrl_rules[i].ante[j][1] \in FieldSet
              /\ ctrl_rules[i].ante[j][2] \in Labels(ctrl_rules[i].ante[j][1])

\* C8 as stated: 24 rules, 6 of them comorbidity rules.
C8_Original ==
    pc # "build" =>
        /\ Len(ctrl_rules) = 24
        /\ RuleCount(TRUE, RiskLabels) = 6
        /\ TierCounts

\* The rule base as build_system builds it.
BuiltRuleBase ==
    /\ Len(ctrl_rules) = 26
    /\ RuleCount(TRUE, RiskLabels) = 8
    /\ RuleCount(TRUE, {"high"}) = 7
    /\ TierCounts

\* C8 as amended: the rule base changes only when build_system runs, and
\* the rule base build_system builds has exactly 26 rules: 5 with
\* consequent vlow/low, 6 med, 4 high, 3 vhigh, plus 8 comorbidity rules,
\* of which exactly one is the protective rule (-> low) and the other 7
\* have consequent high; every antecedent is a conjunction of
\* (variable, label) terms whose labels exist on that variable.
C8_RuleBase ==
    [][ctrl_rules' # ctrl_rules => (pc = "build" /\ BuiltRuleBase')]_vars

\* C8 witness: build_system has run and the loop works on its rules.
C8_Witness == pc = "score" /\ Len(ctrl_rules) > 0 /\ Len(df) = 1

\* A column of the reference file with at least one number and no text.
CleanColumn(c) ==
    /\ c \in csv.cols
    /\ ~AstypeRaises(csv.data[c])
    /\ DropNa(csv.data[c]) # <<>>

\* C9: calibration yields a tuple for each of BMI, Age and GenHlth: the
\* default tuple for all when pandas or the file is unavailable, the
\* default tuple for an absent column and for a column without values,
\* and for a column of numbers the tuple computed from its non-missing
\* values.
C9_Calibration ==
    pc = "loaded" =>
        /\ DOMAIN Q = CalibratedSet
        /\ \A c \in CalibratedSet :
             /\ Len(Q[c]) = 5
             /\ (~csv.pandas \/ ~csv.readable) => Q[c] = DefaultQuantiles
             /\ (csv.readable /\ c \notin csv.cols) => Q[c] = DefaultQuantiles
             /\ (csv.readable /\ c \in csv.cols /\ DropNa(csv.data[c]) = <<>>)
                    => Q[c] = DefaultQuantiles
             /\ (csv.readable /\ CleanColumn(c)) => Q[c] = compute_quantiles(csv.data[c])

\* Scenario 2: BMI fully obese, Age fully old, GenHlth fully poor, HighBP,
\* HighChol and HeartDiseaseorAttack 1, PhysActivity 0 (Smoker free), for
\* the inputs as the simulation clips them.
Scenario2(row) ==
    /\ row.bad = {}
    /\ Fuzzify("BMI", "obese", Clip(row.v["BMI"], UniverseOf("BMI", Q)), Q) = Full
    /\ Fuzzify("Age", "old", Clip(row.v["Age"], UniverseOf("Age", Q)), Q) = Full
    /\ Fuzzify("GenHlth", "poor", Clip(row.v["GenHlth"], UniverseOf("GenHlth", Q)), Q) = Full
    /\ row.v["HighBP"] = Unit
    /\ row.v["PhysActivity"] = 0
    /\ row.v["HighChol"] = Unit
    /\ row.v["HeartDiseaseorAttack"] = Unit

\* C10: under the default quantiles every scenario-2 record has a score in
\* the very-high band, score >= 0.8.
C10_Scenario2 ==
    \A i \in 1..Len(scores) :
        (Scenario2(df[i]) /\ ~raised[i]) => ~Below(scores[i], 8)

=============================================================================
